---------------------------- MODULE Spec2Model ----------------------------
(***************************************************************************)
(* A model of basic_rust_server: the request-line parser (Request::new),   *)
(* the path resolver (Request::path_exists, normalize_path_string), the    *)
(* response writer (helpers::handle_connection) and the accept loop of     *)
(* main.rs.                                                                *)
(*                                                                         *)
(* Text is a sequence of atoms.  An atom is a TLA+ string standing for one *)
(* character (a separator, a whitespace character, an invalid byte) or for *)
(* a run of ordinary characters ("GET", "docs").  Str concatenates the     *)
(* atoms of a text, so two texts are the same string exactly when their    *)
(* concatenations agree.                                                   *)
(***************************************************************************)
EXTENDS Integers, Sequences, FiniteSets, TLC

VARIABLES
    fs,        \* the filesystem: absolute path -> entry
    sent,      \* what the client composed: tokens, separator, padding, ending
    stream,    \* the connection's input: [bytes, end]
    peerOpen,  \* whether the client still accepts bytes
    pc,        \* position of helpers::handle_connection
    request,   \* the value of Request::new(tcp_stream)
    resolved,  \* the value of request.path_exists()
    file,      \* the opened file and the read position in it
    status,    \* the status line being built
    buf,       \* bytes held by the BufWriter
    out,       \* bytes that reached the connection
    ret,       \* the value handle_connection returned
    mpc,       \* position of main.rs's loop
    got,       \* main.rs: the lines collected by its handle_connection
    served     \* main.rs: connection attempts taken from the listener

vars == <<fs, sent, stream, peerOpen, pc, request, resolved, file, status,
          buf, out, ret, mpc, got, served>>

cycleVars == <<fs, sent, stream, peerOpen, pc, request, resolved, file,
               status, buf, out, ret>>

mainVars == <<mpc, got, served>>

---------------------------------------------------------------------------
(* Bounds of the model.                                                    *)

MaxTokens == 4

MaxUrlLen == 4

MaxSymlinks == 2

MaxReads == 3

MaxConns == 3

---------------------------------------------------------------------------
(* Characters.                                                             *)

SP == " "

TAB == "<TAB>"

LF == "<LF>"

CR == "<CR>"

FF == "<FF>"

\* U+000B, vertical tab: White_Space, but not ASCII whitespace for Rust
VT == "<VT>"

\* a byte that is not valid UTF-8
BAD == "<0xFF>"

BSeq(S, n) == UNION {[1..k -> S] : k \in 0..n}

RECURSIVE Str(_)
Str(t) == IF t = <<>> THEN "" ELSE Head(t) \o Str(Tail(t))

Front(s) == SubSeq(s, 1, Len(s) - 1)

Last(s) == s[Len(s)]

\* u8::is_ascii_whitespace: space, tab, line feed, form feed, carriage return
AsciiWhitespace == {SP, TAB, LF, FF, CR}

IsAsciiWhitespace(c) == c \in AsciiWhitespace

\* char::is_whitespace: the Unicode White_Space property.  VT stands for every
\* White_Space character that is not ASCII whitespace (U+000B, U+0085, U+00A0, ...).
IsWhitespace(c) == c \in {SP, TAB, LF, FF, CR, VT}

\* the runs of s between the atoms of seps, empty runs included
RECURSIVE SplitRuns(_, _, _)
SplitRuns(s, cur, seps) ==
    IF s = <<>> THEN <<cur>>
    ELSE IF Head(s) \in seps THEN <<cur>> \o SplitRuns(Tail(s), <<>>, seps)
    ELSE SplitRuns(Tail(s), Append(cur, Head(s)), seps)

NonEmpty(t) == t # <<>>

\* str::split_ascii_whitespace: the non-empty runs of non-ASCII-whitespace
SplitAsciiWhitespace(s) == SelectSeq(SplitRuns(s, <<>>, AsciiWhitespace), NonEmpty)

RECURSIVE TrimStart(_)
TrimStart(t) ==
    IF t # <<>> /\ IsWhitespace(Head(t)) THEN TrimStart(Tail(t)) ELSE t

RECURSIVE TrimEnd(_)
TrimEnd(t) ==
    IF t # <<>> /\ IsWhitespace(Last(t)) THEN TrimEnd(Front(t)) ELSE t

\* str::trim: leading and trailing White_Space removed
Trim(t) == TrimEnd(TrimStart(t))

---------------------------------------------------------------------------
(* The Line Reader: BufReader::new(stream).lines().next().                 *)

FirstLF(b) ==
    LET idx == {i \in 1..Len(b) : b[i] = LF}
    IN  IF idx = {} THEN 0 ELSE CHOOSE i \in idx : \A j \in idx : i <= j

\* lines() strips the final "\n" and a "\r" before it
StripEol(l) ==
    IF l # <<>> /\ Last(l) = LF
    THEN IF Front(l) # <<>> /\ Last(Front(l)) = CR THEN Front(Front(l))
         ELSE Front(l)
    ELSE l

\* read_line: bytes up to and including the first "\n", or up to the end of
\* the stream; a read error before that, or bytes that are not UTF-8, is Err.
ReadLine(s) ==
    LET i == FirstLF(s.bytes)
        raw == IF i > 0 THEN SubSeq(s.bytes, 1, i) ELSE s.bytes
    IN  IF i = 0 /\ s.end = "err" THEN [tag |-> "err"]
        ELSE IF raw = <<>> THEN [tag |-> "none"]
        ELSE IF \E k \in 1..Len(raw) : raw[k] = BAD THEN [tag |-> "err"]
        ELSE [tag |-> "line", line |-> StripEol(raw)]

---------------------------------------------------------------------------
(* Request::new                                                            *)

NoText == <<>>

Err(e) == [tag |-> e, url |-> NoText, method |-> "", version |-> ""]

\* a variant that accepts a line when either literal matches
ValidHeaderEither(data) == Str(data[1]) = "GET" \/ Str(data[3]) = "HTTP/1.1"

ValidHeader(data) == Str(data[1]) = "GET" /\ Str(data[3]) = "HTTP/1.1"

\* a variant that only rejects lines of fewer than three parts
ParseLineAtLeastThree(line) ==
    LET data == [i \in 1..Len(SplitAsciiWhitespace(line)) |->
                    Trim(SplitAsciiWhitespace(line)[i])]
    IN  IF Len(data) < 3 THEN Err("InvalidLength")
        ELSE IF ~ValidHeader(data) THEN Err("InvalidHeader")
        ELSE [tag |-> "Ok", url |-> data[2], method |-> Str(data[1]),
              version |-> Str(data[3])]

ParseLine(line) ==
    LET data == [i \in 1..Len(SplitAsciiWhitespace(line)) |->
                    Trim(SplitAsciiWhitespace(line)[i])]
    IN  IF Len(data) # 3 THEN Err("InvalidLength")
        ELSE IF ~ValidHeader(data) THEN Err("InvalidHeader")
        ELSE [tag |-> "Ok", url |-> data[2], method |-> Str(data[1]),
              version |-> Str(data[3])]

\* a variant that reports a closed, silent connection as a failed read
RequestNewEmptyIsIo(s) ==
    LET r == ReadLine(s)
    IN  IF r.tag = "line" THEN ParseLine(r.line) ELSE Err("Io")

RequestNew(s) ==
    LET r == ReadLine(s)
    IN  CASE r.tag = "none" -> Err("EmptyRequest")
          [] r.tag = "err"  -> Err("Io")
          [] OTHER          -> ParseLine(r.line)

---------------------------------------------------------------------------
(* The filesystem.  A path is the sequence of its components; an absolute  *)
(* path starts at the root <<>>.  Symbolic links hold absolute targets.    *)

NoEntry == [kind |-> "none", target |-> <<>>, data |-> <<>>, readable |-> FALSE]

Dir == [kind |-> "dir", target |-> <<>>, data |-> <<>>, readable |-> TRUE]

Link(t) == [kind |-> "link", target |-> t, data |-> <<>>, readable |-> TRUE]

RegularFile(d, r) == [kind |-> "file", target |-> <<>>, data |-> d, readable |-> r]

\* helpers.rs: pub static BASE_DIR
BASE_DIR == "pages"

\* the directory the server was started in
Cwd == <<>>

Nodes ==
    {<<>>, <<"index.html">>, <<"pages2">>, <<"pages2", "index.html">>,
     <<"pages2", "error404.html">>, <<"pages">>, <<"pages", "index.html">>,
     <<"pages", "error404.html">>, <<"pages", "docs">>,
     <<"pages", "docs", "index.html">>}

\* One layout.  pagesK: what "pages" is; indexK: what pages/index.html is
\* ("escape": a link to /index.html, "inner": a link to pages/docs/index.html);
\* docsK: what pages/docs is ("sibling": a link to /pages2, "root": a link to
\* /, "loop": a link to itself); e404K: what error404.html is; readable:
\* whether the server may open the files under pages.
MkFs(pagesK, indexK, docsK, docsIndexK, e404K, readable) ==
    [p \in Nodes |->
        CASE p = <<>> -> Dir
          [] p = <<"index.html">> -> RegularFile(<<"s1">>, TRUE)
          [] p = <<"pages2">> -> Dir
          [] p = <<"pages2", "index.html">> -> RegularFile(<<"t1">>, TRUE)
          [] p = <<"pages2", "error404.html">> ->
                IF e404K = "file" THEN RegularFile(<<"f1">>, TRUE) ELSE NoEntry
          [] p = <<"pages">> ->
                CASE pagesK = "dir" -> Dir
                  [] pagesK = "link" -> Link(<<"pages2">>)
                  [] OTHER -> NoEntry
          [] pagesK # "dir" -> NoEntry
          [] p = <<"pages", "index.html">> ->
                CASE indexK = "file" -> RegularFile(<<"i1", "i2">>, readable)
                  [] indexK = "dir" -> Dir
                  [] indexK = "escape" -> Link(<<"index.html">>)
                  [] indexK = "inner" -> Link(<<"pages", "docs", "index.html">>)
                  [] OTHER -> NoEntry
          [] p = <<"pages", "error404.html">> ->
                IF e404K = "file" THEN RegularFile(<<"e1">>, TRUE) ELSE NoEntry
          [] p = <<"pages", "docs">> ->
                CASE docsK = "dir" -> Dir
                  [] docsK = "sibling" -> Link(<<"pages2">>)
                  [] docsK = "root" -> Link(<<>>)
                  [] docsK = "loop" -> Link(<<"pages", "docs">>)
                  [] OTHER -> NoEntry
          [] p = <<"pages", "docs", "index.html">> ->
                IF docsK = "dir" /\ docsIndexK = "file"
                THEN RegularFile(<<>>, readable) ELSE NoEntry]

LayoutsWith(e404Ks, readables) ==
    {MkFs("dir", i, d, x, e, r) :
        i \in {"file", "none", "dir", "escape", "inner"},
        d \in {"dir", "none", "sibling", "root", "loop"},
        x \in {"file", "none"}, e \in e404Ks, r \in readables}
    \cup {MkFs(k, "none", "none", "none", e, TRUE) :
            k \in {"none", "link"}, e \in e404Ks}

Layouts == LayoutsWith({"file", "none"}, BOOLEAN)

Lookup(f, p) == IF p \in DOMAIN f THEN f[p] ELSE NoEntry

NotFound == [ok |-> FALSE, path |-> <<>>]

\* realpath(3): done are the components resolved so far (a directory, free of
\* links), rest those still to walk, fuel the links that may still be followed.
RECURSIVE Walk(_, _, _, _)
Walk(f, done, rest, fuel) ==
    IF rest = <<>> THEN [ok |-> TRUE, path |-> done]
    ELSE LET c == Head(rest)
             r == Tail(rest)
             p == Append(done, c)
             e == Lookup(f, p)
         IN  CASE c = "." -> Walk(f, done, r, fuel)
               [] c = ".." ->
                    Walk(f, IF done = <<>> THEN <<>> ELSE Front(done), r, fuel)
               [] e.kind = "dir" -> Walk(f, p, r, fuel)
               [] e.kind = "file" ->
                    IF r = <<>> THEN [ok |-> TRUE, path |-> p] ELSE NotFound
               [] e.kind = "link" ->
                    IF fuel = 0 THEN NotFound
                    ELSE Walk(f, <<>>, e.target \o r, fuel - 1)
               [] OTHER -> NotFound

\* Path::canonicalize of a path taken relative to Cwd
Canonicalize(f, rel) == Walk(f, <<>>, Cwd \o rel, MaxSymlinks)

\* a variant that trusts the canonical candidate without the prefix check
StartsWithAnything(p, base) == TRUE

\* Path::starts_with: whole components, never a part of one
StartsWith(p, base) ==
    Len(base) <= Len(p) /\ SubSeq(p, 1, Len(base)) = base

\* Path::is_file on a canonical path
IsFile(f, p) == Lookup(f, p).kind = "file"

---------------------------------------------------------------------------
(* Request::normalize_path_string and Request::path_exists                 *)

\* raw.splitn(2, c).next(): the text before the first c
BeforeFirst(raw, c) ==
    LET idx == {i \in 1..Len(raw) : raw[i] = c}
    IN  IF idx = {} THEN raw
        ELSE SubSeq(raw, 1, (CHOOSE i \in idx : \A j \in idx : i <= j) - 1)

\* PathBuf::set_extension on a path whose file name has no extension yet
SetExtension(path, ext) == Append(Front(path), Last(path) \o "." \o ext)

\* the elements pushed by the loop: the non-empty pieces between "/"
Elements(text) ==
    LET runs == SelectSeq(SplitRuns(text, <<>>, {"/"}), NonEmpty)
    IN  [i \in 1..Len(runs) |-> Str(runs[i])]

\* a variant that strips the query string and keeps the fragment
NormalizeQueryOnly(raw) ==
    SetExtension(Append(Elements(BeforeFirst(raw, "?")), "index"), "html")

NormalizePathString(raw) ==
    LET query_stripped == BeforeFirst(raw, "?")
        fragment_stripped == BeforeFirst(query_stripped, "#")
    IN  SetExtension(Append(Elements(fragment_stripped), "index"), "html")

None == [some |-> FALSE, path |-> <<>>]

Some(p) == [some |-> TRUE, path |-> p]

BaseDirRelative == IF BASE_DIR = "" THEN <<".">> ELSE <<BASE_DIR>>

PathExists(f, url) ==
    LET base_dir_canonical == Canonicalize(f, BaseDirRelative)
        path_canonical ==
            Walk(f, <<>>, base_dir_canonical.path \o NormalizePathString(url),
                 MaxSymlinks)
    IN  IF ~base_dir_canonical.ok THEN None
        ELSE IF ~path_canonical.ok THEN None
        ELSE IF ~StartsWith(path_canonical.path, base_dir_canonical.path) THEN None
        ELSE IF IsFile(f, path_canonical.path) THEN Some(path_canonical.path)
        ELSE None

---------------------------------------------------------------------------
(* What a client sends.  A message is a list of tokens (each a non-empty   *)
(* text free of ASCII whitespace), the separator put between them, the     *)
(* padding put around the line, and the way the line ends.                 *)

RECURSIVE Join(_, _)
Join(toks, sep) ==
    IF toks = <<>> THEN <<>>
    ELSE IF Len(toks) = 1 THEN toks[1]
    ELSE toks[1] \o sep \o Join(Tail(toks), sep)

Endings == {"lf", "crlf", "headers", "eof", "reset", "badutf8"}

LineTail(ending) ==
    CASE ending = "lf" -> <<LF>>
      [] ending = "crlf" -> <<CR, LF>>
      [] ending = "headers" -> <<CR, LF, "Host:", SP, "x", CR, LF, CR, LF>>
      [] ending = "badutf8" -> <<BAD, CR, LF>>
      [] OTHER -> <<>>

Encode(m) ==
    [bytes |-> m.pad \o Join(m.toks, m.sep) \o m.pad \o LineTail(m.ending),
     end |-> IF m.ending = "reset" THEN "err" ELSE "eof"]

Msg(toks, sep, pad, ending) ==
    [toks |-> toks, sep |-> sep, pad |-> pad, ending |-> ending]

GET == <<"GET">>

HTTP11 == <<"HTTP/1.1">>

ParseWords == {GET, HTTP11, <<"/p">>, <<VT, "GET">>, <<"/p", VT>>, <<VT>>}

ParseMessages ==
    {Msg(t, s, p, e) : t \in BSeq(ParseWords, MaxTokens),
                       s \in {<<SP>>, <<TAB, SP>>}, p \in {<<>>, <<SP>>},
                       e \in Endings}

PathAtoms == {"/", "docs", "..", "?", "#"}

Urls == BSeq(PathAtoms, MaxUrlLen) \cup {<<"/", "docs", "?", "x=1", "#", "top">>}

CycleUrls ==
    {<<"/">>, <<"/", "docs">>, <<"/", "docs", "/">>, <<"/", "docs", "?", "x">>,
     <<"/", "..">>, <<"/", "nope">>}

CycleMessages ==
    {Msg(<<GET, u, HTTP11>>, <<SP>>, <<>>, "headers") : u \in CycleUrls}
    \cup {Msg(<<>>, <<SP>>, <<>>, e) : e \in {"eof", "crlf", "reset"}}
    \cup {Msg(<<GET, <<"/">>>>, <<SP>>, <<>>, "crlf"),
          Msg(<<<<"PUT">>, <<"/">>, HTTP11>>, <<SP>>, <<>>, "crlf"),
          Msg(<<GET, <<"/">>, HTTP11>>, <<SP>>, <<>>, "badutf8")}

NoMessage == Msg(<<>>, <<SP>>, <<>>, "eof")

NoFile == [open |-> FALSE, path |-> <<>>, data |-> <<>>, pos |-> 0]

---------------------------------------------------------------------------
(* helpers::handle_connection, one request/response cycle.  The filesystem  *)
(* does not change during a cycle: the window between path_exists and      *)
(* File::open is not modelled.                                             *)

InitMain ==
    /\ mpc = "accept"
    /\ got = <<>>
    /\ served = 0

InitCycle(messages, layouts) ==
    /\ fs \in layouts
    /\ sent \in messages
    /\ stream = Encode(sent)
    /\ peerOpen = TRUE
    /\ pc = "new"
    /\ request = Err("none")
    /\ resolved = None
    /\ file = NoFile
    /\ status = ""
    /\ buf = <<>>
    /\ out = <<>>
    /\ ret = "running"
    /\ InitMain

Init == InitCycle(CycleMessages, Layouts)

\* a variant that answers a malformed request line with the 404 page
NewRequestAnswers404 ==
    /\ pc = "new"
    /\ request' = RequestNew(stream)
    /\ pc' = IF request'.tag = "Io" THEN "done"
             ELSE IF request'.tag = "Ok" THEN "path_exists" ELSE "open"
    /\ ret' = IF request'.tag = "Io" THEN "Io" ELSE ret
    /\ UNCHANGED <<fs, sent, stream, peerOpen, resolved, file, status, buf, out>>
    /\ UNCHANGED mainVars

\* let request = Request::new(tcp_stream)?;
NewRequest ==
    /\ pc = "new"
    /\ request' = RequestNew(stream)
    /\ pc' = IF request'.tag = "Ok" THEN "path_exists" ELSE "done"
    /\ ret' = IF request'.tag = "Ok" THEN ret ELSE request'.tag
    /\ UNCHANGED <<fs, sent, stream, peerOpen, resolved, file, status, buf, out>>
    /\ UNCHANGED mainVars

\* request.path_exists()
PathExistsStep ==
    /\ pc = "path_exists"
    /\ resolved' = PathExists(fs, request.url)
    /\ pc' = "open"
    /\ UNCHANGED <<fs, sent, stream, peerOpen, request, file, status, buf, out, ret>>
    /\ UNCHANGED mainVars

\* Path::new(BASE_DIR).join("error404") with its extension set
Error404Path ==
    SetExtension(IF BASE_DIR = "" THEN <<"error404">> ELSE <<BASE_DIR, "error404">>,
                 "html")

\* File::open: the path is followed to a regular file the server may read
FileOpen(f, abs) ==
    LET c == Walk(f, <<>>, abs, MaxSymlinks)
    IN  IF c.ok /\ Lookup(f, c.path).kind = "file" /\ Lookup(f, c.path).readable
        THEN [open |-> TRUE, path |-> c.path, data |-> Lookup(f, c.path).data,
              pos |-> 0]
        ELSE NoFile

\* a variant that answers 200 whatever was resolved
StatusTextAlwaysOk(found) == "200 Ok"

StatusText(found) == IF found THEN "200 Ok" ELSE "404 NOT FOUND"

\* the two branches of `if let Some(url) = request.path_exists()`
OpenFile ==
    /\ pc = "open"
    /\ file' = FileOpen(fs, IF resolved.some THEN resolved.path
                              ELSE Cwd \o Error404Path)
    /\ IF file'.open
       THEN /\ status' = "HTTP/1.1 " \o StatusText(resolved.some)
            /\ pc' = "write_status"
            /\ ret' = ret
       ELSE /\ status' = "HTTP/1.1 "
            /\ pc' = "done"
            /\ ret' = "Io"
    /\ UNCHANGED <<fs, sent, stream, peerOpen, request, resolved, buf, out>>
    /\ UNCHANGED mainVars

CRLF == "\r\n"

StatusLine(st) == st \o CRLF

\* file.metadata()?.len(): the size in bytes of the open file
ContentLength(fl) == Len(fl.data)

ContentLengthLine(fl) == "Content-Length: " \o ToString(ContentLength(fl)) \o CRLF

ContentTypeLine == "Content-Type: text/html; charset=utf-8" \o CRLF

BlankLine == CRLF

\* A write! to the BufWriter leaves the text in its buffer: the head of a
\* response is far shorter than the buffer, so none of these four writes
\* reaches the connection by itself.
WriteStatus ==
    /\ pc = "write_status"
    /\ buf' = Append(buf, StatusLine(status))
    /\ pc' = "write_length"
    /\ UNCHANGED <<fs, sent, stream, peerOpen, request, resolved, file, status,
                   out, ret>>
    /\ UNCHANGED mainVars

WriteContentLength ==
    /\ pc = "write_length"
    /\ buf' = Append(buf, ContentLengthLine(file))
    /\ pc' = "write_type"
    /\ UNCHANGED <<fs, sent, stream, peerOpen, request, resolved, file, status,
                   out, ret>>
    /\ UNCHANGED mainVars

WriteContentType ==
    /\ pc = "write_type"
    /\ buf' = Append(buf, ContentTypeLine)
    /\ pc' = "write_blank"
    /\ UNCHANGED <<fs, sent, stream, peerOpen, request, resolved, file, status,
                   out, ret>>
    /\ UNCHANGED mainVars

\* a variant that starts the body right after the last header
SkipBlankLine ==
    /\ pc = "write_blank"
    /\ pc' = "copy"
    /\ UNCHANGED <<fs, sent, stream, peerOpen, request, resolved, file, status,
                   buf, out, ret>>
    /\ UNCHANGED mainVars

WriteBlankLine ==
    /\ pc = "write_blank"
    /\ buf' = Append(buf, BlankLine)
    /\ pc' = "copy"
    /\ UNCHANGED <<fs, sent, stream, peerOpen, request, resolved, file, status,
                   out, ret>>
    /\ UNCHANGED mainVars

\* std::io::copy: the next byte of the file goes to the BufWriter
CopyByte ==
    /\ pc = "copy"
    /\ file.pos < Len(file.data)
    /\ buf' = Append(buf, file.data[file.pos + 1])
    /\ file' = [file EXCEPT !.pos = @ + 1]
    /\ UNCHANGED <<fs, sent, stream, peerOpen, pc, request, resolved, status,
                   out, ret>>
    /\ UNCHANGED mainVars

\* std::io::copy returns at the end of the file
CopyEnd ==
    /\ pc = "copy"
    /\ file.pos = Len(file.data)
    /\ pc' = "flush"
    /\ UNCHANGED <<fs, sent, stream, peerOpen, request, resolved, file, status,
                   buf, out, ret>>
    /\ UNCHANGED mainVars

\* The BufWriter hands its oldest bytes to the connection.  While copying it
\* does so whenever its buffer is full; the model lets it happen at any time.
\* A client that is gone makes the write fail, and `?` returns the error;
\* what the BufWriter still holds is then lost with it.
Spill ==
    /\ pc = "copy"
    /\ buf # <<>>
    /\ IF peerOpen
       THEN /\ out' = Append(out, Head(buf))
            /\ buf' = Tail(buf)
            /\ UNCHANGED <<pc, ret>>
       ELSE /\ pc' = "done"
            /\ ret' = "Io"
            /\ UNCHANGED <<buf, out>>
    /\ UNCHANGED <<fs, sent, stream, peerOpen, request, resolved, file, status>>
    /\ UNCHANGED mainVars

\* buf_writer.flush()?: the bytes still held go to the connection
Flush ==
    /\ pc = "flush"
    /\ buf # <<>>
    /\ IF peerOpen
       THEN /\ out' = Append(out, Head(buf))
            /\ buf' = Tail(buf)
            /\ UNCHANGED <<pc, ret>>
       ELSE /\ pc' = "done"
            /\ ret' = "Io"
            /\ UNCHANGED <<buf, out>>
    /\ UNCHANGED <<fs, sent, stream, peerOpen, request, resolved, file, status>>
    /\ UNCHANGED mainVars

\* buf_writer.flush()? has written everything: Ok(())
Finish ==
    /\ pc = "flush"
    /\ buf = <<>>
    /\ pc' = "done"
    /\ ret' = "Ok"
    /\ UNCHANGED <<fs, sent, stream, peerOpen, request, resolved, file, status,
                   buf, out>>
    /\ UNCHANGED mainVars

\* the client closes its end of the connection
PeerClose ==
    /\ pc \in {"write_status", "write_length", "write_type", "write_blank",
               "copy", "flush"}
    /\ peerOpen
    /\ peerOpen' = FALSE
    /\ UNCHANGED <<fs, sent, stream, pc, request, resolved, file, status, buf,
                   out, ret>>
    /\ UNCHANGED mainVars

Next ==
    \/ NewRequest
    \/ PathExistsStep
    \/ OpenFile
    \/ WriteStatus
    \/ WriteContentLength
    \/ WriteContentType
    \/ WriteBlankLine
    \/ CopyByte
    \/ CopyEnd
    \/ Spill
    \/ Flush
    \/ Finish
    \/ PeerClose

Spec == Init /\ [][Next]_vars

---------------------------------------------------------------------------
(* Request::new alone, on every message of ParseMessages                   *)

InitParse == InitCycle(ParseMessages, {MkFs("dir", "file", "dir", "file", "file", TRUE)})

NextParse == NewRequest

SpecParse == InitParse /\ [][NextParse]_vars

---------------------------------------------------------------------------
(* Request::path_exists alone, on every url of Urls and every layout       *)

InitResolve ==
    /\ fs \in LayoutsWith({"file"}, {TRUE})
    /\ sent = NoMessage
    /\ stream = Encode(NoMessage)
    /\ peerOpen = TRUE
    /\ pc = "path_exists"
    /\ \E u \in Urls :
          request = [tag |-> "Ok", url |-> u, method |-> "GET",
                     version |-> "HTTP/1.1"]
    /\ resolved = None
    /\ file = NoFile
    /\ status = ""
    /\ buf = <<>>
    /\ out = <<>>
    /\ ret = "running"
    /\ InitMain

NextResolve == PathExistsStep

SpecResolve == InitResolve /\ [][NextResolve]_vars

---------------------------------------------------------------------------
(* main.rs: the accept loop, its handle_connection and                     *)
(* write_connection_response.  lib.rs's get_request reads the same way.    *)

MainStreams ==
    [bytes : BSeq({"h", CR, LF, BAD}, MaxReads), end : {"eof", "err"}]

\* what is left of the stream after the line read_line returned
AfterLine(s) ==
    LET i == FirstLF(s.bytes)
    IN  [s EXCEPT !.bytes = IF i = 0 THEN <<>> ELSE SubSeq(@, i + 1, Len(@))]

InitServer ==
    /\ fs = MkFs("dir", "file", "dir", "file", "file", TRUE)
    /\ sent = NoMessage
    /\ stream = Encode(NoMessage)
    /\ peerOpen = TRUE
    /\ pc = "new"
    /\ request = Err("none")
    /\ resolved = None
    /\ file = NoFile
    /\ status = ""
    /\ buf = <<>>
    /\ out = <<>>
    /\ ret = "running"
    /\ InitMain

\* for connection_attempt in listener.incoming(): an attempt that failed
AcceptFailed ==
    /\ mpc = "accept"
    /\ served < MaxConns
    /\ served' = served + 1
    /\ UNCHANGED <<mpc, got>>
    /\ UNCHANGED cycleVars

\* if let Ok(mut stream) = connection_attempt: the client will send s, and
\* will or will not still be there when the response is written
Accept ==
    /\ mpc = "accept"
    /\ served < MaxConns
    /\ served' = served + 1
    /\ stream' \in MainStreams
    /\ peerOpen' \in BOOLEAN
    /\ got' = <<>>
    /\ out' = <<>>
    /\ mpc' = "read"
    /\ UNCHANGED <<fs, sent, pc, request, resolved, file, status, buf, ret>>

\* main.rs handle_connection: one turn of
\* buf_reader.lines().map(|result| result.unwrap()).take_while(|line| !line.is_empty())
ReadHeaderLine ==
    /\ mpc = "read"
    /\ LET r == ReadLine(stream)
       IN  CASE r.tag = "err" ->
                  /\ mpc' = "panicked"
                  /\ UNCHANGED <<stream, got>>
             [] r.tag = "none" ->
                  /\ mpc' = "write"
                  /\ UNCHANGED <<stream, got>>
             [] OTHER ->
                  /\ stream' = AfterLine(stream)
                  /\ mpc' = IF r.line = <<>> THEN "write" ELSE "read"
                  /\ got' = IF r.line = <<>> THEN got ELSE Append(got, r.line)
    /\ UNCHANGED served
    /\ UNCHANGED <<fs, sent, peerOpen, pc, request, resolved, file, status, buf,
                   out, ret>>

\* stream.write_all(response.as_bytes()).unwrap()
WriteConnectionResponse ==
    /\ mpc = "write"
    /\ IF peerOpen
       THEN /\ out' = <<"HTTP/1.1 200 OK" \o CRLF \o CRLF>>
            /\ mpc' = "accept"
       ELSE /\ out' = out
            /\ mpc' = "panicked"
    /\ UNCHANGED <<got, served>>
    /\ UNCHANGED <<fs, sent, stream, peerOpen, pc, request, resolved, file,
                   status, buf, ret>>

NextMain ==
    \/ AcceptFailed
    \/ Accept
    \/ ReadHeaderLine
    \/ WriteConnectionResponse

SpecMain == InitServer /\ [][NextMain]_vars

---------------------------------------------------------------------------
(* Claims about Request::new, checked under SpecParse.                     *)

\* Request::new has returned
Parsed == pc # "new"

\* the client's bytes held a first line of text, which the reader delivered
LineWasRead ==
    \/ sent.ending \in {"lf", "crlf", "headers"}
    \/ sent.ending = "eof" /\ (sent.toks # <<>> \/ sent.pad # <<>>)

\* the line is `GET <path> HTTP/1.1`: three tokens, the first exactly GET,
\* the third exactly HTTP/1.1
WellFormed ==
    /\ LineWasRead
    /\ Len(sent.toks) = 3
    /\ sent.toks[1] = GET
    /\ sent.toks[3] = HTTP11

\* C2: every line of the form `GET <path> HTTP/1.1` is parsed into a Request
\* whose path is the <path> token unmodified, and only such lines are.
C2_PathUnmodified ==
    Parsed =>
        /\ WellFormed => request.tag = "Ok" /\ request.url = sent.toks[2]
        /\ request.tag = "Ok" => WellFormed

C4_InvalidLength ==
    (Parsed /\ LineWasRead /\ Len(sent.toks) # 3)
    => request.tag = "InvalidLength"

C4_Witness ==
    /\ Parsed
    /\ LineWasRead
    /\ sent.toks = <<GET, <<"/p">>, HTTP11, <<"/p">>>>
    /\ request.tag = "InvalidLength"

---------------------------------------------------------------------------
(* Claims about Request::path_exists, checked under SpecResolve.           *)

\* request.path_exists() has returned
Resolved == pc = "open"

\* where the base directory really is: "pages" itself, or what it links to
RealBase ==
    IF fs[<<"pages">>].kind = "link" THEN fs[<<"pages">>].target ELSE <<"pages">>

BaseExists == fs[<<"pages">>].kind # "none"

\* p lies under the base directory, component by component
Inside(p) ==
    /\ Len(p) > Len(RealBase)
    /\ \A i \in 1..Len(RealBase) : p[i] = RealBase[i]

\* the candidate: the normalized request path joined onto the base
Candidate == Walk(fs, <<>>, RealBase \o NormalizePathString(request.url), MaxSymlinks)

\* C1: a path returned by path_exists exists, is a regular file and lies
\* under the canonical base directory, component-wise; a request path whose
\* candidate canonicalizes to a place outside the base directory yields None.
C1_Confined ==
    Resolved =>
        /\ resolved.some =>
              /\ resolved.path \in DOMAIN fs
              /\ fs[resolved.path].kind = "file"
              /\ Inside(resolved.path)
        /\ (BaseExists /\ Candidate.ok /\ ~Inside(Candidate.path)) => ~resolved.some

\* a link inside the base was followed and the file it leads to is served
C1_Witness ==
    /\ Resolved
    /\ resolved.some
    /\ fs[<<"pages", "index.html">>].kind = "link"
    /\ request.url = <<"/", "docs", "/", "..">>
    /\ resolved.path = <<"pages", "docs", "index.html">>

\* the text of a request path before its first `?` or `#`
RoutePart(u) ==
    LET stops == {i \in 1..Len(u) : u[i] \in {"?", "#"}}
    IN  SubSeq(u, 1, IF stops = {} THEN Len(u)
                     ELSE (CHOOSE i \in stops : \A j \in stops : i <= j) - 1)

\* the non-empty `/`-separated segments of that text
Segments(u) == SelectSeq(SplitRuns(RoutePart(u), <<>>, {"/"}), NonEmpty)

\* the plain request path with the given segments: `/a/b` for a, b, and the
\* empty path for none
PlainPath(segs) == IF segs = <<>> THEN <<>> ELSE <<"/">> \o Join(segs, <<"/">>)

\* request paths that differ from the plain one by a trailing slash, a
\* doubled leading slash, or a query string and a fragment
Spellings(segs) ==
    {PlainPath(segs), PlainPath(segs) \o <<"/">>, <<"/">> \o PlainPath(segs),
     PlainPath(segs) \o <<"?", "x=1", "#", "top">>, PlainPath(segs) \o <<"#", "/", "..">>}

\* C7: resolution depends only on the non-empty segments before the first
\* `?` or `#`: the request path resolves to what every other spelling of its
\* segments resolves to, and a path without segments (`/`, the empty path)
\* resolves to index.html at the root of the base directory.
C7_SegmentsOnly ==
    Resolved =>
        /\ \A q \in Spellings(Segments(request.url)) : PathExists(fs, q) = resolved
        /\ (Segments(request.url) = <<>> /\ BaseExists) =>
              LET index == Lookup(fs, RealBase \o <<"index.html">>)
              IN  /\ index.kind = "file" =>
                        resolved = Some(RealBase \o <<"index.html">>)
                  /\ index.kind \in {"none", "dir"} => ~resolved.some

\* `/docs?x=1#top` was resolved, to the file `/docs` resolves to
C7_Witness ==
    /\ Resolved
    /\ request.url = <<"/", "docs", "?", "x=1", "#", "top">>
    /\ resolved = Some(<<"pages", "docs", "index.html">>)
    /\ PathExists(fs, <<"/", "docs">>) = resolved
    /\ PathExists(fs, <<"/", "/", "docs">>) = resolved
    /\ PathExists(fs, <<"/", "docs", "/">>) = resolved

---------------------------------------------------------------------------
(* Claims about helpers::handle_connection, checked under Spec.            *)

IsPrefix(a, b) == Len(a) <= Len(b) /\ SubSeq(b, 1, Len(a)) = a

\* everything handle_connection wrote: what reached the connection, then
\* what its BufWriter holds
Wrote == out \o buf

OkLine == "HTTP/1.1 200 Ok\r\n"

NotFoundLine == "HTTP/1.1 404 NOT FOUND\r\n"

GrammarErrors == {"EmptyRequest", "InvalidLength", "InvalidHeader"}

\* the bytes on disk of the file that was opened
Served == Lookup(fs, file.path).data

\* the response for the opened file, in the order of the wire format
ExpectedResponse ==
    <<status \o "\r\n",
      "Content-Length: " \o ToString(Len(Served)) \o "\r\n",
      "Content-Type: text/html; charset=utf-8\r\n",
      "\r\n">> \o Served

BodyBytes == UNION {{fs[p].data[i] : i \in 1..Len(fs[p].data)} : p \in DOMAIN fs}

\* C5 as stated: a cycle that fails with a grammar violation or with a
\* resolution failure, and not with an I/O error, ends with the whole
\* 404 response on the connection.
C5_EveryFailureGets404 ==
    (/\ pc = "done"
     /\ ret # "Io"
     /\ \/ request.tag \in GrammarErrors
        \/ request.tag = "Ok" /\ ~resolved.some)
    => (out # <<>> /\ out[1] = NotFoundLine /\ out = ExpectedResponse)

\* C5 as amended: a grammar violation ends the cycle with that error and
\* nothing written; a resolution failure ends it with the whole 404 response
\* written, or with an I/O error (error404.html could not be opened, or the
\* client was gone).
C5_GrammarErrorsWriteNothing ==
    pc = "done" =>
        /\ request.tag \in GrammarErrors =>
              ret = request.tag /\ out = <<>> /\ buf = <<>>
        /\ (request.tag = "Ok" /\ ~resolved.some) =>
              \/ /\ ret = "Ok"
                 /\ out[1] = NotFoundLine
                 /\ out = ExpectedResponse
                 /\ file.path = RealBase \o <<"error404.html">>
              \/ ret = "Io" /\ (~file.open \/ ~peerOpen)

C5_Witness ==
    /\ pc = "done"
    /\ request.tag = "InvalidHeader"
    /\ ret = "InvalidHeader"
    /\ out = <<>>

\* C6: what a cycle writes is, in this order, the status line, Content-Length
\* with the byte length of the file served, Content-Type, a blank line and the
\* file's bytes; no body byte comes before the blank line.
C6_WriteOrder ==
    /\ IsPrefix(Wrote, ExpectedResponse)
    /\ \A i \in 1..Len(out) :
          out[i] \in BodyBytes => \E j \in 1..(i - 1) : out[j] = "\r\n"
    /\ (pc = "done" /\ ret = "Ok") => out = ExpectedResponse
    /\ ~file.open => Wrote = <<>>

C6_Witness ==
    /\ pc = "done"
    /\ ret = "Ok"
    /\ out = <<OkLine, "Content-Length: 2\r\n",
               "Content-Type: text/html; charset=utf-8\r\n", "\r\n", "i1", "i2">>

\* handle_connection is past its File::open
PastOpen == request.tag = "Ok" /\ pc \notin {"new", "path_exists", "open"}

\* the file to serve cannot be opened
CannotOpen ==
    \/ resolved.some /\ ~Lookup(fs, resolved.path).readable
    \/ ~resolved.some /\ Lookup(fs, RealBase \o <<"error404.html">>).kind # "file"

\* C8: the status line is `HTTP/1.1 200 Ok` exactly when resolution returned
\* a target, which is then the body, and `HTTP/1.1 404 NOT FOUND` exactly when
\* it returned nothing, with error404.html under the base as the body; there
\* is no other status line; a file that cannot be opened ends the cycle with
\* an error and nothing written.
C8_StatusMatchesResolution ==
    /\ Wrote # <<>> =>
          /\ Wrote[1] \in {OkLine, NotFoundLine}
          /\ Wrote[1] = OkLine <=> resolved.some
          /\ Wrote[1] = NotFoundLine <=> ~resolved.some
          /\ resolved.some => file.path = resolved.path
          /\ ~resolved.some => file.path = RealBase \o <<"error404.html">>
          /\ IsPrefix(SubSeq(Wrote, 5, Len(Wrote)), Served)
    /\ PastOpen =>
          /\ CannotOpen <=> ~file.open
          /\ ~file.open => pc = "done" /\ ret = "Io" /\ Wrote = <<>>

C8_Witness ==
    /\ pc = "done"
    /\ ret = "Ok"
    /\ ~resolved.some
    /\ out[1] = NotFoundLine
    /\ out[5] = "e1"

\* C9: a client that closes without sending a byte makes Request::new return
\* EmptyRequest, not Io (Io is a failed read), and the cycle ends with
\* nothing written.
C9_EmptyRequest ==
    pc # "new" =>
        /\ (stream.bytes = <<>> /\ stream.end = "eof") =>
              /\ request.tag = "EmptyRequest"
              /\ pc = "done"
              /\ ret = "EmptyRequest"
              /\ Wrote = <<>>
        /\ request.tag = "EmptyRequest" => stream.bytes = <<>>
        /\ request.tag = "Io" => sent.ending \in {"reset", "badutf8"}

C9_Witness ==
    /\ pc = "done"
    /\ stream = [bytes |-> <<>>, end |-> "eof"]
    /\ ret = "EmptyRequest"
    /\ out = <<>>

---------------------------------------------------------------------------
(* The claim about main.rs, checked under SpecMain.                        *)

\* C10: an I/O error on one connection never aborts the process: the server
\* is never brought down by a failed read or write.
C10_NeverAborts == mpc # "panicked"

=============================================================================
